---- MODULE Spec2Model ----
(***************************************************************************)
(* RC car simulator (RCCarSimulator) of ChargedUP, as a state machine.     *)
(*                                                                         *)
(* The program computes with IEEE doubles; the model computes with         *)
(* fixed-point integers and rounds every quotient toward minus infinity.   *)
(* Units of the fixed-point values:                                        *)
(*   time stamps        ms            dt, lapTime        cs (0.01 s)       *)
(*   position, length   cm            velocity           dm/s              *)
(*   acceleration       dm/s^2        forces             mN                *)
(*   mass               g             frictionCoeff      1/100             *)
(*   airResistance      1/100         maxTorque          mN.m              *)
(*   wheelRadius        mm            motorEfficiency    percent           *)
(*   throttle           percent       batteryVoltage     0.1 V             *)
(*   batteryCurrent     0.1 A         batteryCapacity    0.001 mAh         *)
(*   internalR          0.1 ohm       totalEnergy        mJ                *)
(*   batteryCharge      0.01 percent                                       *)
(***************************************************************************)
EXTENDS Integers, Sequences, FiniteSets, TLC

VARIABLES state, params, lastTime, lastOp, tickDt, lapTimes, calc, storage

vars == <<state, params, lastTime, lastOp, tickDt, lapTimes, calc, storage>>

----------------------------------------------------------------------------
(* Bounds of the model *)

\* animation frames are followed up to time stamp MaxFrames * 50 ms
MaxFrames == 6

\* gaps between two animation frames, ms: one below and one above the 0.1 s clamp
FrameGaps == {50, 110}

\* values of the throttle slider, percent
ThrottleValues == {0, 100}

\* values of the mass slider, g
MassValues == {1, 500}

\* values of the friction slider, 1/100
FrictionValues == {0, 30}

----------------------------------------------------------------------------
(* Constants of the program *)

Infinity == 2147483647

TrackLength == 2000

Gravity == 981

MaxDt == 10

FullCharge == 10000

Max(a, b) == IF a >= b THEN a ELSE b

Min(a, b) == IF a <= b THEN a ELSE b

Abs(a) == IF a >= 0 THEN a ELSE -a

\* this.state of the constructor
DefaultState ==
  [ position      |-> 0,
    velocity      |-> 0,
    acceleration  |-> 0,
    batteryCharge |-> FullCharge,
    lapCount      |-> 0,
    lapTime       |-> 0,
    bestLapTime   |-> Infinity,
    totalEnergy   |-> 0,
    isRunning     |-> FALSE ]

\* this.params of the constructor
DefaultParams ==
  [ mass            |-> 500,
    wheelRadius     |-> 20,
    motorEfficiency |-> 70,
    frictionCoeff   |-> 30,
    airResistance   |-> 5,
    maxTorque       |-> 100,
    batteryVoltage  |-> 60,
    batteryCurrent  |-> 10,
    batteryCapacity |-> 2000000,
    internalR       |-> 12,
    throttle        |-> 0 ]

----------------------------------------------------------------------------
(* Physics calculations *)

\* F_motor = (maxTorque * throttle / wheelRadius) * efficiency, in mN
calculateMotorForce(p) ==
  LET torque == p.maxTorque * p.throttle
      force  == (((torque * 10) \div p.wheelRadius) * p.motorEfficiency) \div 100
  IN  force

\* the friction with the sign of the motion instead of against it
calculateFrictionWrongSign(s, p) ==
  LET normalForce == p.mass * Gravity
      friction    == (p.frictionCoeff * normalForce) \div 10000
  IN  IF s.velocity > 0 THEN friction ELSE 0

\* the friction applied to a car at rest as well
calculateFrictionAtRest(s, p) ==
  LET normalForce == p.mass * Gravity
      friction    == (p.frictionCoeff * normalForce) \div 10000
  IN  -friction

\* f = mu * m * g, opposing the motion, only while velocity > 0
calculateFriction(s, p) ==
  LET normalForce == p.mass * Gravity
      friction    == (p.frictionCoeff * normalForce) \div 10000
  IN  IF s.velocity > 0 THEN -friction ELSE 0

\* F_air = -k * v * |v|
calculateAirResistance(s, p) ==
  LET airDrag == (p.airResistance * s.velocity * Abs(s.velocity)) \div 10
  IN  -airDrag

\* a = F_net / m
calculateAcceleration(s, p) ==
  LET motorForce == calculateMotorForce(p)
      friction   == calculateFriction(s, p)
      airDrag    == calculateAirResistance(s, p)
      netForce   == motorForce + friction + airDrag
  IN  (netForce * 10) \div p.mass

\* the tick without the check of the battery
effectiveThrottleIgnoringBattery(s, p) ==
  p.throttle

\* the throttle a tick computes with: a dead battery forces it to 0
effectiveThrottle(s, p) ==
  IF s.batteryCharge <= 0 THEN 0 ELSE p.throttle

\* integrateVelocity without the clamp at 0
integrateVelocityNoClamp(v, a, dt) ==
  v + ((a * dt) \div 100)

\* v = v0 + a*dt, never negative
integrateVelocity(v, a, dt) ==
  Max(0, v + ((a * dt) \div 100))

\* x = x0 + v*dt
integratePosition(x, v, dt) ==
  x + ((v * dt) \div 10)

\* lap completion that puts the car back on the start line
completeLapResetToStart(s) ==
  IF s.position >= TrackLength
    THEN [s EXCEPT !.position    = 0,
                   !.lapCount    = s.lapCount + 1,
                   !.bestLapTime = IF s.lapTime > 0 /\ s.lapTime < s.bestLapTime
                                     THEN s.lapTime ELSE s.bestLapTime,
                   !.lapTime     = 0]
    ELSE s

\* lap completion that also takes a lap time of 0 as the best lap time
completeLapNoZeroCheck(s) ==
  IF s.position >= TrackLength
    THEN [s EXCEPT !.position    = s.position - TrackLength,
                   !.lapCount    = s.lapCount + 1,
                   !.bestLapTime = IF s.lapTime < s.bestLapTime
                                     THEN s.lapTime ELSE s.bestLapTime,
                   !.lapTime     = 0]
    ELSE s

\* lap completion: wrap the position, count the lap, keep the best lap time
completeLap(s) ==
  IF s.position >= TrackLength
    THEN [s EXCEPT !.position    = s.position - TrackLength,
                   !.lapCount    = s.lapCount + 1,
                   !.bestLapTime = IF s.lapTime > 0 /\ s.lapTime < s.bestLapTime
                                     THEN s.lapTime ELSE s.bestLapTime,
                   !.lapTime     = 0]
    ELSE s

\* updateBattery that stores the energy of this tick instead of adding it
updateBatteryAssign(s, p, dt) ==
  IF p.throttle > 0
    THEN LET power        == p.batteryVoltage * p.batteryCurrent * p.throttle
             energyUsed   == (power * dt) \div 1000
             totalEnergy  == energyUsed
             fullCapacity == p.batteryVoltage * ((p.batteryCapacity * 36) \div 100)
         IN  [s EXCEPT !.totalEnergy   = totalEnergy,
                       !.batteryCharge =
                          Max(0, FullCharge - ((totalEnergy * FullCharge) \div fullCapacity))]
    ELSE s

\* updateBattery with the charge taken from the energy before this tick
updateBatteryLagging(s, p, dt) ==
  IF p.throttle > 0
    THEN LET power        == p.batteryVoltage * p.batteryCurrent * p.throttle
             energyUsed   == (power * dt) \div 1000
             totalEnergy  == s.totalEnergy + energyUsed
             fullCapacity == p.batteryVoltage * ((p.batteryCapacity * 36) \div 100)
         IN  [s EXCEPT !.totalEnergy   = totalEnergy,
                       !.batteryCharge =
                          Max(0, FullCharge - ((s.totalEnergy * FullCharge) \div fullCapacity))]
    ELSE s

\* updateBattery without the clamp of the charge at 0
updateBatteryNoClamp(s, p, dt) ==
  IF p.throttle > 0
    THEN LET power        == p.batteryVoltage * p.batteryCurrent * p.throttle
             energyUsed   == (power * dt) \div 1000
             totalEnergy  == s.totalEnergy + energyUsed
             fullCapacity == p.batteryVoltage * ((p.batteryCapacity * 36) \div 100)
         IN  [s EXCEPT !.totalEnergy   = totalEnergy,
                       !.batteryCharge =
                          FullCharge - ((totalEnergy * FullCharge) \div fullCapacity)]
    ELSE s

\* energy drawn in dt and the charge that is left
updateBattery(s, p, dt) ==
  IF p.throttle > 0
    THEN LET power        == p.batteryVoltage * p.batteryCurrent * p.throttle
             energyUsed   == (power * dt) \div 1000
             totalEnergy  == s.totalEnergy + energyUsed
             fullCapacity == p.batteryVoltage * ((p.batteryCapacity * 36) \div 100)
         IN  [s EXCEPT !.totalEnergy   = totalEnergy,
                       !.batteryCharge =
                          Max(0, FullCharge - ((totalEnergy * FullCharge) \div fullCapacity))]
    ELSE s

\* the tick that pauses the simulation when it finds the battery dead
updatePhysicsStopsWhenDead(s, p, dt) ==
  LET p1 == [p EXCEPT !.throttle = effectiveThrottle(s, p)]
      a  == calculateAcceleration(s, p1)
      v  == integrateVelocity(s.velocity, a, dt)
      s1 == [s EXCEPT !.acceleration = a,
                      !.velocity     = v,
                      !.position     = integratePosition(s.position, v, dt),
                      !.isRunning    = s.batteryCharge > 0]
      s2 == completeLap(s1)
      s3 == [s2 EXCEPT !.lapTime = s2.lapTime + dt]
  IN  <<updateBattery(s3, p1, dt), p1>>

\* the tick with the lap time advanced before the lap check
updatePhysicsLapTimeFirst(s, p, dt) ==
  LET p1 == [p EXCEPT !.throttle = effectiveThrottle(s, p)]
      a  == calculateAcceleration(s, p1)
      v  == integrateVelocity(s.velocity, a, dt)
      s1 == [s EXCEPT !.acceleration = a,
                      !.velocity     = v,
                      !.position     = integratePosition(s.position, v, dt)]
      s2 == [s1 EXCEPT !.lapTime = s1.lapTime + dt]
      s3 == completeLap(s2)
  IN  <<updateBattery(s3, p1, dt), p1>>

\* the tick with the position advanced by the velocity before the tick
updatePhysicsOldVelocity(s, p, dt) ==
  LET p1 == [p EXCEPT !.throttle = effectiveThrottle(s, p)]
      a  == calculateAcceleration(s, p1)
      v  == integrateVelocity(s.velocity, a, dt)
      s1 == [s EXCEPT !.acceleration = a,
                      !.velocity     = v,
                      !.position     = integratePosition(s.position, s.velocity, dt)]
      s2 == completeLap(s1)
      s3 == [s2 EXCEPT !.lapTime = s2.lapTime + dt]
  IN  <<updateBattery(s3, p1, dt), p1>>

\* one tick: <<state, params>> after updatePhysics(dt)
updatePhysics(s, p, dt) ==
  LET p1 == [p EXCEPT !.throttle = effectiveThrottle(s, p)]
      a  == calculateAcceleration(s, p1)
      v  == integrateVelocity(s.velocity, a, dt)
      s1 == [s EXCEPT !.acceleration = a,
                      !.velocity     = v,
                      !.position     = integratePosition(s.position, v, dt)]
      s2 == completeLap(s1)
      s3 == [s2 EXCEPT !.lapTime = s2.lapTime + dt]
  IN  <<updateBattery(s3, p1, dt), p1>>

\* the dt of a frame without the clamp to 0.1 s
frameDtNoClamp(last, timestamp) ==
  LET lt == IF last = 0 THEN timestamp ELSE last
  IN  (timestamp - lt) \div 10

\* the dt of a frame, from the time stamps of this frame and the last one
frameDt(last, timestamp) ==
  LET lt == IF last = 0 THEN timestamp ELSE last
  IN  Min((timestamp - lt) \div 10, MaxDt)

\* reset() that leaves the energy counter alone
resetStateKeepEnergy(s) ==
  [ position      |-> 0,
    velocity      |-> 0,
    acceleration  |-> 0,
    batteryCharge |-> FullCharge,
    lapCount      |-> 0,
    lapTime       |-> 0,
    bestLapTime   |-> Infinity,
    totalEnergy   |-> s.totalEnergy,
    isRunning     |-> FALSE ]

\* reset() that toggles isRunning as the start button does
resetStateToggle(s) ==
  [ position      |-> 0,
    velocity      |-> 0,
    acceleration  |-> 0,
    batteryCharge |-> FullCharge,
    lapCount      |-> 0,
    lapTime       |-> 0,
    bestLapTime   |-> Infinity,
    totalEnergy   |-> 0,
    isRunning     |-> ~s.isRunning ]

\* this.state after reset()
resetState(s) ==
  [ position      |-> 0,
    velocity      |-> 0,
    acceleration  |-> 0,
    batteryCharge |-> FullCharge,
    lapCount      |-> 0,
    lapTime       |-> 0,
    bestLapTime   |-> Infinity,
    totalEnergy   |-> 0,
    isRunning     |-> FALSE ]

\* this.params after reset()
resetParams(p) == [p EXCEPT !.throttle = 0]

\* what localStorage holds under 'chargedup-chemistry-data' when init() runs:
\* nothing, text that is not JSON, or an object (a field that is 0 is absent)
StoredItems ==
  { [kind |-> "none",      packVoltage |-> 0,  capacityMah |-> 0,   internalR |-> 0, motorCurrent |-> 0],
    [kind |-> "malformed", packVoltage |-> 0,  capacityMah |-> 0,   internalR |-> 0, motorCurrent |-> 0],
    [kind |-> "json",      packVoltage |-> 60, capacityMah |-> 25,  internalR |-> 0, motorCurrent |-> 10] }

loadBatteryData(p, item) ==
  IF item.kind = "json"
    THEN [p EXCEPT
            !.batteryVoltage  = IF item.packVoltage  # 0 THEN item.packVoltage  ELSE @,
            !.batteryCapacity = IF item.capacityMah  # 0 THEN item.capacityMah  ELSE @,
            !.internalR       = IF item.internalR    # 0 THEN item.internalR    ELSE @,
            !.batteryCurrent  = IF item.motorCurrent # 0 THEN item.motorCurrent ELSE @]
    ELSE p

----------------------------------------------------------------------------
(* The state machine *)

\* no calculator of the chemistry and physics pages has been called
NoCalc == [fn |-> "none"]

\* the key of localStorage that loadBatteryData() reads
SimulatorKey == "chargedup-chemistry-data"

\* the key of localStorage that transferToPhysics() writes
PhysicsKey == "chargedup_battery_for_physics"

\* localStorage without an item under either key
EmptyStorage ==
  [key \in {SimulatorKey, PhysicsKey} |->
     [kind |-> "none", packVoltage |-> 0, capacityMah |-> 0, internalR |-> 0,
      motorCurrent |-> 0]]

\* new RCCarSimulator(...).init(): listeners, loadBatteryData(), animate(0)
Init ==
  /\ state = DefaultState
  /\ \E item \in StoredItems :
       /\ storage = [EmptyStorage EXCEPT ![SimulatorKey] = item]
       /\ params = loadBatteryData(DefaultParams, item)
  /\ lastTime = 0
  /\ lastOp = "init"
  /\ tickDt = 0
  /\ lapTimes = << >>
  /\ calc = NoCalc

\* lastOp names the handler that ran last; a tick is a frame that called
\* updatePhysics
TickOps == {"tick", "tick, throttle overridden"}

FrameOps == TickOps \cup {"frame"}

ResetOps == {"reset", "reset again"}
ThrottleOps == {"throttle", "throttle, started"}

\* requestAnimationFrame callback: animate(timestamp)
AnimationFrame ==
  \E gap \in FrameGaps :
    LET timestamp == lastTime + gap
        dt        == frameDt(lastTime, timestamp)
        r         == updatePhysics(state, params, dt)
    IN  /\ timestamp <= MaxFrames * 50
        /\ lastTime' = timestamp
        /\ UNCHANGED <<calc, storage>>
        /\ IF state.isRunning
             THEN /\ state' = r[1]
                  /\ params' = r[2]
                  /\ lastOp' = IF state.batteryCharge <= 0 /\ params.throttle > 0
                                 THEN "tick, throttle overridden"
                                 ELSE "tick"
                  /\ tickDt' = dt
                  /\ lapTimes' = IF r[1].lapCount # state.lapCount
                                   THEN Append(lapTimes, state.lapTime)
                                   ELSE lapTimes
             ELSE /\ lastOp' = "frame"
                  /\ UNCHANGED <<state, params, tickDt, lapTimes>>

\* 'input' on the throttle slider
ThrottleInput ==
  \E value \in ThrottleValues :
    /\ params' = [params EXCEPT !.throttle = value]
    /\ state' = IF value > 0 /\ ~state.isRunning
                  THEN [state EXCEPT !.isRunning = TRUE]
                  ELSE state
    /\ lastOp' = IF value > 0 /\ ~state.isRunning
                   THEN "throttle, started" ELSE "throttle"
    /\ UNCHANGED <<lastTime, tickDt, lapTimes, calc, storage>>

\* the mass handler storing its value in the friction field
MassInputWrongField ==
  \E value \in MassValues :
    /\ params' = [params EXCEPT !.frictionCoeff = value]
    /\ lastOp' = "mass"
    /\ UNCHANGED <<state, lastTime, tickDt, lapTimes, calc, storage>>

\* 'input' on the mass slider
MassInput ==
  \E value \in MassValues :
    /\ params' = [params EXCEPT !.mass = value]
    /\ lastOp' = "mass"
    /\ UNCHANGED <<state, lastTime, tickDt, lapTimes, calc, storage>>

\* 'input' on the friction slider
FrictionInput ==
  \E value \in FrictionValues :
    /\ params' = [params EXCEPT !.frictionCoeff = value]
    /\ lastOp' = "friction"
    /\ UNCHANGED <<state, lastTime, tickDt, lapTimes, calc, storage>>

\* 'click' on the start/pause button
StartClick ==
  /\ state' = [state EXCEPT !.isRunning = ~state.isRunning]
  /\ lastOp' = "start"
  /\ UNCHANGED <<params, lastTime, tickDt, lapTimes, calc, storage>>

\* 'click' on the reset button: reset()
ResetClick ==
  /\ state' = resetState(state)
  /\ params' = resetParams(params)
  /\ lastOp' = IF lastOp \in ResetOps THEN "reset again" ELSE "reset"
  /\ lapTimes' = << >>
  /\ UNCHANGED <<lastTime, tickDt, calc, storage>>

Next ==
  \/ AnimationFrame
  \/ ThrottleInput
  \/ MassInput
  \/ FrictionInput
  \/ StartClick
  \/ ResetClick

Spec == Init /\ [][Next]_vars

----------------------------------------------------------------------------
(* The ticks of a running car over a wider range of slider settings than
   Spec follows: the sliders are set and the car is started before the first
   frame, and only frames follow. *)

TickThrottles == {0, 40, 100}

TickMasses == {1, 500}

TickFrictions == {0, 30, 80}

\* init(), inputs on the three sliders, and a click on start when the
\* throttle is 0
TickInit ==
  /\ state = [DefaultState EXCEPT !.isRunning = TRUE]
  /\ \E throttle \in TickThrottles, mass \in TickMasses,
        frictionCoeff \in TickFrictions :
       /\ params = [DefaultParams EXCEPT !.throttle = throttle, !.mass = mass,
                                         !.frictionCoeff = frictionCoeff]
       /\ lastOp = IF throttle > 0 THEN "throttle" ELSE "start"
  /\ lastTime = 0
  /\ tickDt = 0
  /\ lapTimes = << >>
  /\ calc = NoCalc
  /\ storage = EmptyStorage

TickNext ==
  \/ AnimationFrame

TickSpec == TickInit /\ [][TickNext]_vars

----------------------------------------------------------------------------
(* The slider handlers on arbitrary value texts.  The handlers read
   e.target.value, a string, through parseFloat and store the result without
   a check; this specification feeds them texts outside the ranges of the
   sliders and runs no tick. *)

\* parseFloat of a text that does not start with a number
NaN == -2147483647

SliderTexts == {"0", "-50", "40", "100", "250", "abc"}

\* parseFloat on the texts above
parseFloat(text) ==
  CASE text = "0"   -> 0
    [] text = "-50" -> -50
    [] text = "40"  -> 40
    [] text = "100" -> 100
    [] text = "250" -> 250
    [] OTHER        -> NaN

\* NaN > 0 is false
GreaterThanZero(x) == x # NaN /\ x > 0

\* 'input' on the throttle slider with the text as the value of the slider
RawThrottleInput ==
  \E text \in SliderTexts :
    LET throttle == parseFloat(text)
    IN  /\ params' = [params EXCEPT !.throttle = throttle]
        /\ state' = IF GreaterThanZero(throttle) /\ ~state.isRunning
                      THEN [state EXCEPT !.isRunning = TRUE]
                      ELSE state
        /\ lastOp' = IF GreaterThanZero(throttle) /\ ~state.isRunning
                       THEN "throttle, started" ELSE "throttle"
        /\ UNCHANGED <<lastTime, tickDt, lapTimes, calc, storage>>

\* 'input' on the mass slider with the text as the value of the slider
RawMassInput ==
  \E text \in SliderTexts :
    /\ params' = [params EXCEPT !.mass = parseFloat(text)]
    /\ lastOp' = "mass"
    /\ UNCHANGED <<state, lastTime, tickDt, lapTimes, calc, storage>>

SetterNext ==
  \/ RawThrottleInput
  \/ RawMassInput
  \/ StartClick

SetterSpec == Init /\ [][SetterNext]_vars

----------------------------------------------------------------------------
(* The calculators of the chemistry and physics pages.  They are pure
   functions of their arguments; calc records the last call: the name of the
   function, the argument list as passed and the object returned.

   Units of the calculators (quotients round down):
     reactant mass      microgram            molar mass    mg / mol
     moles              0.1 micromole        charge        mC
     voltage            0.1 V                energy        mJ (energyWh: uWh)
     capacity           0.001 mAh (capacityAh: 0.001 mAh as well)          *)

\* Faraday constant, C / mol
FARADAY == 96485

\* molar masses, mg / mol
M_ZN == 65380

M_MNO2 == 86936

\* a * b / c without an intermediate product beyond 32 bits
MulDiv(a, b, c) == ((a \div c) * b) + (((a % c) * b) \div c)

\* the i-th positional argument, or the default of the parameter when the
\* call passes fewer arguments
Arg(args, i, default) == IF i <= Len(args) THEN args[i] ELSE default

\* the comparison of the reagents with < in place of <=
znIsLimitingStrict(molesZn, znNeeded) == molesZn < znNeeded

\* if (molesZn <= znNeeded)
znIsLimiting(molesZn, znNeeded) == molesZn <= znNeeded

\* the charge from the moles of the reaction instead of the moles of electrons
chargeFromMolesNoElectrons(molesReaction, electronsPerRxn) ==
  MulDiv(molesReaction, FARADAY, 10000)

\* molesElectrons = molesReaction * electronsPerRxn; chargeC = molesElectrons * F
chargeFromMoles(molesReaction, electronsPerRxn) ==
  MulDiv(molesReaction * electronsPerRxn, FARADAY, 10000)

\* the function with the leftover of each branch taken from the other one
calculateFromMassSwappedExcess(args) ==
  LET znMass          == args[1]
      mno2Mass        == args[2]
      voltage         == Arg(args, 3, 15)
      electronsPerRxn == Arg(args, 4, 2)
      molesZn         == MulDiv(znMass, 10000, M_ZN)
      molesMnO2       == MulDiv(mno2Mass, 10000, M_MNO2)
      znNeeded        == molesMnO2 \div 2
      mno2Needed      == molesZn * 2
      znLimits        == znIsLimiting(molesZn, znNeeded)
      molesReaction   == IF znLimits THEN molesZn ELSE molesMnO2 \div 2
      molesElectrons  == molesReaction * electronsPerRxn
      chargeC         == chargeFromMoles(molesReaction, electronsPerRxn)
      energyJ         == (voltage * chargeC) \div 10
      capacityAh      == (chargeC * 10) \div 36
  IN  [ method          |-> "stoichiometry",
        molesZn         |-> molesZn,
        molesMnO2       |-> molesMnO2,
        limitingReagent |-> IF znLimits THEN "Zn" ELSE "MnO2",
        excessReagent   |-> IF znLimits THEN "MnO2" ELSE "Zn",
        excessMoles     |-> IF znLimits THEN molesZn - znNeeded
                                        ELSE molesMnO2 - mno2Needed,
        molesReaction   |-> molesReaction,
        molesElectrons  |-> molesElectrons,
        chargeC         |-> chargeC,
        voltage         |-> voltage,
        energyJ         |-> energyJ,
        energyWh        |-> (energyJ * 10) \div 36,
        capacityMah     |-> capacityAh,
        electronsPerRxn |-> electronsPerRxn ]

\* calculateFromMass(znMass, mno2Mass, voltage = 1.5, electronsPerRxn = 2)
calculateFromMass(args) ==
  LET znMass          == args[1]
      mno2Mass        == args[2]
      voltage         == Arg(args, 3, 15)
      electronsPerRxn == Arg(args, 4, 2)
      molesZn         == MulDiv(znMass, 10000, M_ZN)
      molesMnO2       == MulDiv(mno2Mass, 10000, M_MNO2)
      znNeeded        == molesMnO2 \div 2
      mno2Needed      == molesZn * 2
      znLimits        == znIsLimiting(molesZn, znNeeded)
      molesReaction   == IF znLimits THEN molesZn ELSE molesMnO2 \div 2
      molesElectrons  == molesReaction * electronsPerRxn
      chargeC         == chargeFromMoles(molesReaction, electronsPerRxn)
      energyJ         == (voltage * chargeC) \div 10
      capacityAh      == (chargeC * 10) \div 36
  IN  [ method          |-> "stoichiometry",
        molesZn         |-> molesZn,
        molesMnO2       |-> molesMnO2,
        limitingReagent |-> IF znLimits THEN "Zn" ELSE "MnO2",
        excessReagent   |-> IF znLimits THEN "MnO2" ELSE "Zn",
        excessMoles     |-> IF znLimits THEN molesMnO2 - mno2Needed
                                        ELSE molesZn - znNeeded,
        molesReaction   |-> molesReaction,
        molesElectrons  |-> molesElectrons,
        chargeC         |-> chargeC,
        voltage         |-> voltage,
        energyJ         |-> energyJ,
        energyWh        |-> (energyJ * 10) \div 36,
        capacityMah     |-> capacityAh,
        electronsPerRxn |-> electronsPerRxn ]

\* reactant masses of the calls: none, 0.5 g .. 4 g, and 16.345 g of Zn with
\* 43.468 g of MnO2, which are 0.25 mol and 0.5 mol, an exact 1 : 2
ZnMasses == {0, 500000, 1000000, 2000000, 16345000}

MnO2Masses == {0, 1000000, 2000000, 4000000, 43468000}

\* the arguments after the two masses: none, the voltage, both
MassOptionalArgs == {<< >>, <<15>>, <<12, 2>>, <<15, 1>>}

\* the simulator is not touched by the calculators
SimulatorIdle == UNCHANGED <<state, params, lastTime, lastOp, tickDt, lapTimes>>

\* a call of BatteryCalculator.calculateFromMass
CalculateFromMass ==
  \E znMass \in ZnMasses, mno2Mass \in MnO2Masses, rest \in MassOptionalArgs :
    LET args == <<znMass, mno2Mass>> \o rest
    IN  /\ calc' = [fn |-> "calculateFromMass", args |-> args,
                    out |-> calculateFromMass(args)]
        /\ SimulatorIdle
        /\ UNCHANGED storage

\* the body of calculateFromCapacity on its bound parameters
packFromCapacity(capacityMah, voltage, cellCount, seriesCount, parallelCount) ==
  LET chargeC         == (capacityMah * 36) \div 10
      packVoltage     == voltage * seriesCount
      packCapacityMah == capacityMah * parallelCount
      packChargeC     == chargeC * parallelCount
      energyJ         == (packVoltage * packChargeC) \div 10
  IN  [ method          |-> "commercial",
        cellCapacityMah |-> capacityMah,
        cellVoltage     |-> voltage,
        cellCount       |-> cellCount,
        seriesCount     |-> seriesCount,
        parallelCount   |-> parallelCount,
        packVoltage     |-> packVoltage,
        packCapacityMah |-> packCapacityMah,
        chargeC         |-> packChargeC,
        energyJ         |-> energyJ,
        energyWh        |-> (energyJ * 10) \div 36 ]

\* the function without the cellCount parameter
calculateFromCapacityFourParams(args) ==
  packFromCapacity(args[1], args[2], 1, Arg(args, 3, 1), Arg(args, 4, 1))

\* calculateFromCapacity(capacityMah, voltage, cellCount = 1,
\*                       seriesCount = 1, parallelCount = 1)
calculateFromCapacity(args) ==
  packFromCapacity(args[1], args[2],
                   Arg(args, 3, 1), Arg(args, 4, 1), Arg(args, 5, 1))

\* cell capacities 1000 and 2000 mAh, cell voltages 1.2 and 1.5 V
CellCapacities == {1000000, 2000000}

CellVoltages == {12, 15}

\* the arguments after capacity and voltage, as far as the call passes them
PackOptionalArgs ==
  {<< >>, <<4>>, <<4, 1>>, <<2, 2>>, <<4, 4, 1>>, <<2, 1, 2>>, <<4, 2, 2>>}

\* a call of BatteryCalculator.calculateFromCapacity
CalculateFromCapacity ==
  \E capacityMah \in CellCapacities, voltage \in CellVoltages,
     rest \in PackOptionalArgs :
    LET args == <<capacityMah, voltage>> \o rest
    IN  /\ calc' = [fn |-> "calculateFromCapacity", args |-> args,
                    out |-> calculateFromCapacity(args)]
        /\ SimulatorIdle
        /\ UNCHANGED storage

\* the loaded voltage without the clamp at 0
calculateLoadedVoltageNoClamp(packVoltage, current, internalR) ==
  LET voltageDrop   == current * internalR
      loadedVoltage == packVoltage - voltageDrop
      powerLoss     == current * current * internalR
  IN  [ openCircuitVoltage |-> packVoltage,
        loadedVoltage      |-> loadedVoltage,
        voltageDrop        |-> voltageDrop,
        current            |-> current,
        internalR          |-> internalR,
        powerLossW         |-> powerLoss ]

\* calculateLoadedVoltage(packVoltage, current, internalR), exact with
\* voltages in 0.01 V, current in 0.1 A, resistance in 0.1 ohm, power in mW
calculateLoadedVoltage(packVoltage, current, internalR) ==
  LET voltageDrop   == current * internalR
      loadedVoltage == packVoltage - voltageDrop
      powerLoss     == current * current * internalR
  IN  [ openCircuitVoltage |-> packVoltage,
        loadedVoltage      |-> Max(0, loadedVoltage),
        voltageDrop        |-> voltageDrop,
        current            |-> current,
        internalR          |-> internalR,
        powerLossW         |-> powerLoss ]

\* open-circuit voltages 0, 1.5 and 6 V, and a reversed 1 V
PackVoltages == {-100, 0, 150, 600}

\* currents 0 .. 10 A, and a charging current of 1 A
LoadCurrents == {-10, 0, 10, 50, 100}

\* internal resistances 0, 0.3, 1.2 and 10 ohm
InternalRs == {0, 3, 12, 100}

\* a call of BatteryCalculator.calculateLoadedVoltage
CalculateLoadedVoltage ==
  \E packVoltage \in PackVoltages, current \in LoadCurrents,
     internalR \in InternalRs :
    /\ calc' = [fn |-> "calculateLoadedVoltage",
                args |-> <<packVoltage, current, internalR>>,
                out |-> calculateLoadedVoltage(packVoltage, current, internalR)]
    /\ SimulatorIdle
    /\ UNCHANGED storage

\* the runtime with 0 hours in place of the infinite runtime without a load
estimateRuntimeZeroWhenIdle(capacityMah, currentA) ==
  IF currentA <= 0
    THEN [hours |-> 0, minutes |-> 0]
    ELSE LET capacityAh == capacityMah
             hours      == capacityAh \div (currentA * 100)
             minutes    == hours * 60
         IN  [ hours       |-> hours,
               minutes     |-> minutes,
               capacityMah |-> capacityMah,
               currentA    |-> currentA ]

\* estimateRuntime(capacityMah, currentA), with the current in 0.1 A, hours
\* in 0.001 h and minutes in 0.001 min
estimateRuntime(capacityMah, currentA) ==
  IF currentA <= 0
    THEN [hours |-> Infinity, minutes |-> Infinity]
    ELSE LET capacityAh == capacityMah
             hours      == capacityAh \div (currentA * 100)
             minutes    == hours * 60
         IN  [ hours       |-> hours,
               minutes     |-> minutes,
               capacityMah |-> capacityMah,
               currentA    |-> currentA ]

\* capacities 0, 500 and 2000 mAh
RuntimeCapacities == {0, 500000, 2000000}

\* current draws of -1, 0, 0.1, 0.5, 1.4 and 2 A
RuntimeCurrents == {-10, 0, 1, 5, 14, 20}

\* a call of BatteryCalculator.estimateRuntime
EstimateRuntime ==
  \E capacityMah \in RuntimeCapacities, currentA \in RuntimeCurrents :
    /\ calc' = [fn |-> "estimateRuntime", args |-> <<capacityMah, currentA>>,
                out |-> estimateRuntime(capacityMah, currentA)]
    /\ SimulatorIdle
    /\ UNCHANGED storage

\* permeability of free space, 4 pi * 10^-7 H/m, in 10^-9 H/m
MU_0 == 1257

\* PHYSICS_CONSTANTS.MU_R, an object literal
MU_R == [air |-> 1, ferrite |-> 2000, iron |-> 4000, steel |-> 4500]

\* names every object literal inherits from Object.prototype; the value
\* found under such a name is a function or an object, not a number
ObjectPrototypeNames ==
  {"constructor", "toString", "valueOf", "hasOwnProperty", "__proto__"}

\* a material argument: a name or a number
MaterialName(name) == [type |-> "string", name |-> name, number |-> 0]

MaterialNumber(n) == [type |-> "number", name |-> "", number |-> n]

\* typeof material === 'number' ? material : (MU_R[material] || 1);
\* an inherited value is truthy, so it stays and is NaN in the product
relativePermeability(material) ==
  IF material.type = "number"
    THEN material.number
    ELSE IF material.name \in DOMAIN MU_R
           THEN (IF MU_R[material.name] # 0 THEN MU_R[material.name] ELSE 1)
           ELSE IF material.name \in ObjectPrototypeNames THEN NaN ELSE 1

\* computeBFieldSolenoid(turns, current, length, material = 'air'), with
\* the current in A, the length in mm and the three fields in microtesla
computeBFieldSolenoid(args) ==
  LET turns    == args[1]
      current  == args[2]
      length   == args[3]
      material == Arg(args, 4, MaterialName("air"))
      mu0      == MU_0
      muR      == relativePermeability(material)
      B        == IF muR = NaN THEN NaN
                  ELSE (mu0 * muR * turns * current) \div length
  IN  [ B      |-> B,
        B_mT   |-> B,
        B_uT   |-> B,
        inputs |-> [turns |-> turns, current |-> current,
                    length |-> length, muR |-> muR],
        unit   |-> "T" ]

\* solenoids of 50 and 100 turns, 20 and 50 mm, with 0, 1 and 2 A
SolenoidTurns == {50, 100}

SolenoidCurrents == {0, 1, 2}

SolenoidLengths == {20, 50}

\* the material argument: left out, a name of the table, another name, a
\* name of Object.prototype, a number
MaterialArgs ==
  {<< >>} \cup
  {<<MaterialName(n)>> : n \in {"air", "ferrite", "iron", "steel", "copper",
                                "constructor"}} \cup
  {<<MaterialNumber(200)>>}

\* a call of MagneticFieldCalculator.computeBFieldSolenoid
ComputeBFieldSolenoid ==
  \E turns \in SolenoidTurns, current \in SolenoidCurrents,
     length \in SolenoidLengths, rest \in MaterialArgs :
    LET args == <<turns, current, length>> \o rest
    IN  /\ calc' = [fn |-> "computeBFieldSolenoid", args |-> args,
                    out |-> computeBFieldSolenoid(args)]
        /\ SimulatorIdle
        /\ UNCHANGED storage

\* the result with the power of the motor taken over the total resistance
loadedCurrentResultTotalPower(supplyVoltage, motorR, internalR) ==
  LET totalR  == motorR + internalR
      current == (supplyVoltage * 1000) \div totalR
  IN  [ current       |-> current,
        supplyVoltage |-> supplyVoltage,
        motorR        |-> motorR,
        internalR     |-> internalR,
        totalR        |-> totalR,
        powerMotor    |-> (current * current * totalR) \div 10000,
        powerLoss     |-> (current * current * internalR) \div 10000,
        note          |-> "Simplified steady-state model" ]

\* the result of computeLoadedCurrent for a total resistance above 0, with
\* the voltage in 0.1 V, resistances in 0.1 ohm, current in mA, powers in mW
loadedCurrentResult(supplyVoltage, motorR, internalR) ==
  LET totalR  == motorR + internalR
      current == (supplyVoltage * 1000) \div totalR
  IN  [ current       |-> current,
        supplyVoltage |-> supplyVoltage,
        motorR        |-> motorR,
        internalR     |-> internalR,
        totalR        |-> totalR,
        powerMotor    |-> (current * current * motorR) \div 10000,
        powerLoss     |-> (current * current * internalR) \div 10000,
        note          |-> "Simplified steady-state model" ]

\* the function with an infinite current for a total resistance of 0 or less
computeLoadedCurrentInfinite(args) ==
  LET supplyVoltage == args[1]
      motorR        == args[2]
      internalR     == Arg(args, 3, 0)
      totalR        == motorR + internalR
  IN  IF totalR <= 0
        THEN [current |-> Infinity, note |-> "Invalid resistance"]
        ELSE loadedCurrentResult(supplyVoltage, motorR, internalR)

\* computeLoadedCurrent(supplyVoltage, motorR, internalR = 0)
computeLoadedCurrent(args) ==
  LET supplyVoltage == args[1]
      motorR        == args[2]
      internalR     == Arg(args, 3, 0)
      totalR        == motorR + internalR
  IN  IF totalR <= 0
        THEN [current |-> 0, note |-> "Invalid resistance"]
        ELSE loadedCurrentResult(supplyVoltage, motorR, internalR)

\* supplies of 0, 6 and 7.2 V; motors of 0, 0.5 and 3 ohm
SupplyVoltages == {0, 60, 72}

MotorRs == {0, 5, 30}

\* the internal resistance: left out, 0, 1.2 ohm, and below 0
InternalRArgs == {<< >>, <<0>>, <<12>>, <<-5>>, <<-30>>}

\* a call of MotorSpeedEstimator.computeLoadedCurrent
ComputeLoadedCurrent ==
  \E supplyVoltage \in SupplyVoltages, motorR \in MotorRs,
     rest \in InternalRArgs :
    LET args == <<supplyVoltage, motorR>> \o rest
    IN  /\ calc' = [fn |-> "computeLoadedCurrent", args |-> args,
                    out |-> computeLoadedCurrent(args)]
        /\ SimulatorIdle
        /\ UNCHANGED storage

\* the JavaScript value null
Null == -2147483646

\* MOTOR_PRESETS, with armatureR in 0.1 ohm and ratedVoltage in 0.1 V, and a
\* preset made by a caller whose no-load speed is 0
MOTOR_PRESETS ==
  [ small_dc_motor |-> [armatureR |-> 30, ratedVoltage |-> 60, noLoadRPM |-> 6000],
    hobby_motor    |-> [armatureR |-> 5,  ratedVoltage |-> 72, noLoadRPM |-> 15000],
    demo_solenoid  |-> [armatureR |-> 20, ratedVoltage |-> 60, noLoadRPM |-> Null],
    custom_still   |-> [armatureR |-> 30, ratedVoltage |-> 60, noLoadRPM |-> 0] ]

\* !noLoadRPM
Falsy(x) == x = Null \/ x = NaN \/ x = 0

\* Math.round of the quotient n / d, d > 0
RoundDiv(n, d) == (n \div d) + (IF 2 * (n % d) >= d THEN 1 ELSE 0)

\* the voltage ratio without its upper limit
voltageRatioNoCap(supplyVoltage, ratedVoltage) ==
  <<supplyVoltage, ratedVoltage>>

\* Math.min(supplyVoltage / ratedVoltage, 1.5), as numerator and denominator
voltageRatio(supplyVoltage, ratedVoltage) ==
  IF 2 * supplyVoltage <= 3 * ratedVoltage
    THEN <<supplyVoltage, ratedVoltage>>
    ELSE <<3, 2>>

\* the result for a coil that does not rotate, with a speed of 0
notRotatingZero == [rpm |-> 0, note |-> "Not a rotating motor"]

\* return { rpm: null, note: 'Not a rotating motor' }
notRotating == [rpm |-> Null, note |-> "Not a rotating motor"]

\* estimateSpeed(current, supplyVoltage) of an estimator built on preset,
\* with the current in 0.1 A, voltages in 0.1 V, the back-EMF and effective
\* voltage in 0.01 V and speedPercent in 0.1 percent
estimateSpeed(preset, current, supplyVoltage) ==
  LET noLoadRPM        == preset.noLoadRPM
      ratedVoltage     == preset.ratedVoltage
      armatureR        == preset.armatureR
      ratio            == voltageRatio(supplyVoltage, ratedVoltage)
      backEMFvoltage   == current * armatureR
      effectiveVoltage == (supplyVoltage * 10) - backEMFvoltage
      speedVoltage     == Max(0, effectiveVoltage)
  IN  IF Falsy(noLoadRPM)
        THEN notRotating
        ELSE [ rpm              |-> RoundDiv(noLoadRPM * speedVoltage * ratio[1],
                                             10 * ratedVoltage * ratio[2]),
               speedPercent     |-> RoundDiv(speedVoltage * 100, ratedVoltage),
               effectiveVoltage |-> effectiveVoltage,
               backEMFvoltage   |-> backEMFvoltage,
               note             |-> "Simple proportional model" ]

\* motor currents 0 .. 5 A and supplies 0 .. 12 V
MotorCurrents == {0, 1, 10, 14, 20, 50}

MotorSupplies == {0, 30, 60, 72, 90, 120}

\* a call of MotorSpeedEstimator.estimateSpeed
EstimateSpeed ==
  \E name \in DOMAIN MOTOR_PRESETS, current \in MotorCurrents,
     supplyVoltage \in MotorSupplies :
    /\ calc' = [fn |-> "estimateSpeed", args |-> <<current, supplyVoltage>>,
                preset |-> MOTOR_PRESETS[name],
                out |-> estimateSpeed(MOTOR_PRESETS[name], current, supplyVoltage)]
    /\ SimulatorIdle
    /\ UNCHANGED storage

CalcNext ==
  \/ CalculateFromMass
  \/ CalculateFromCapacity
  \/ CalculateLoadedVoltage
  \/ EstimateRuntime
  \/ ComputeBFieldSolenoid
  \/ ComputeLoadedCurrent
  \/ EstimateSpeed

CalcSpec == Init /\ [][CalcNext]_vars

----------------------------------------------------------------------------
(* The transfer of the battery from the chemistry page to the simulator.
   The chemistry page computes lastResults in calculate() and writes it to
   localStorage in transferToPhysics(); the simulator reads localStorage in
   loadBatteryData() when it initialises.  Here the simulator is constructed
   but not yet initialised when the chemistry page is used. *)

\* x || d
OrDefault(x, d) == IF Falsy(x) THEN d ELSE x

\* { ...a, ...b }
Merge(a, b) ==
  [k \in (DOMAIN a) \cup (DOMAIN b) |-> IF k \in DOMAIN b THEN b[k] ELSE a[k]]

\* the values of the form of the chemistry page, as parsed: a field left
\* empty parses to NaN
FormInputs ==
  [ mode         : {"commercial", "stoichiometry"},
    voltage      : {NaN, 12},
    series       : {1, 4},
    parallel     : {1, 2},
    internalR    : {NaN},
    motorCurrent : {NaN, 10, 14},
    capacity     : {NaN, 1000000} ]

\* BatteryCalculatorUI.calculate(): this.lastResults; the save through
\* window.ChargedUP?.AppState is skipped, window.ChargedUP has no AppState
calculate(form) ==
  LET voltage       == OrDefault(form.voltage, 15)
      series        == OrDefault(form.series, 1)
      parallel      == OrDefault(form.parallel, 1)
      internalR     == OrDefault(form.internalR, 3)
      motorCurrent  == OrDefault(form.motorCurrent, 0)
      results       == IF form.mode = "stoichiometry"
                         THEN calculateFromMass(<<1000000, 2000000, voltage>>)
                         ELSE calculateFromCapacity(
                                <<OrDefault(form.capacity, 2000000), voltage,
                                  series * parallel, series, parallel>>)
      packVoltage   == voltage * series
      packInternalR == (internalR * series) \div parallel
      capacityMah   == IF "packCapacityMah" \in DOMAIN results
                         THEN OrDefault(results.packCapacityMah, 0)
                         ELSE OrDefault(results.capacityMah, 0)
  IN  Merge(results,
            [ loadedResults |-> IF motorCurrent > 0
                                  THEN calculateLoadedVoltage(packVoltage * 10,
                                         motorCurrent, packInternalR)
                                  ELSE [isNull |-> TRUE],
              runtime       |-> IF motorCurrent > 0
                                  THEN estimateRuntime(capacityMah, motorCurrent)
                                  ELSE [isNull |-> TRUE],
              packVoltage   |-> packVoltage,
              packInternalR |-> packInternalR,
              motorCurrent  |-> motorCurrent ])

\* the page is open and the simulator object exists, init() has not run
TransferInit ==
  /\ state = DefaultState
  /\ params = DefaultParams
  /\ lastTime = 0
  /\ lastOp = "constructed"
  /\ tickDt = 0
  /\ lapTimes = << >>
  /\ calc = NoCalc
  /\ \E item \in StoredItems :
       storage = [EmptyStorage EXCEPT ![SimulatorKey] = item]

\* a change of an input of the chemistry page: calculate()
Calculate ==
  /\ lastOp = "constructed"
  /\ \E form \in FormInputs :
       calc' = [fn |-> "calculate", out |-> calculate(form)]
  /\ SimulatorIdle
  /\ UNCHANGED storage

\* 'click' on the transfer button: transferToPhysics()
TransferToPhysics ==
  /\ lastOp = "constructed"
  /\ \E form \in FormInputs :
       LET lastResults == IF calc.fn = "none" THEN calculate(form) ELSE calc.out
       IN  /\ storage' = [storage EXCEPT
                            ![PhysicsKey] = [kind |-> "json", data |-> lastResults]]
           /\ calc' = [fn |-> "transferToPhysics", out |-> lastResults]
  /\ SimulatorIdle

\* the simulator page is opened: init() calls loadBatteryData()
SimulatorInit ==
  /\ lastOp = "constructed"
  /\ params' = loadBatteryData(params, storage[SimulatorKey])
  /\ lastOp' = "init"
  /\ UNCHANGED <<state, lastTime, tickDt, lapTimes, calc, storage>>

TransferNext ==
  \/ Calculate
  \/ TransferToPhysics
  \/ SimulatorInit

TransferSpec == TransferInit /\ [][TransferNext]_vars

----------------------------------------------------------------------------
(* Properties *)

\* C1: the velocity is never negative, in every reachable state, also after
\* a tick whose net force is strongly negative.
C1_VelocityNonNegative == state.velocity >= 0

\* a tick with dt > 0 whose deceleration was far larger than any velocity
\* of the car, and which ended at velocity 0
C1_Witness ==
  /\ lastOp \in TickOps
  /\ tickDt > 0
  /\ state.acceleration * tickDt < -1000000
  /\ state.velocity = 0

\* C2: the battery charge always lies within 0 .. 100 percent.
C2_ChargeInRange == state.batteryCharge >= 0 /\ state.batteryCharge <= FullCharge

\* the energy drawn exceeds the full capacity and the charge is held at 0
C2_Witness ==
  /\ state.batteryCharge = 0
  /\ state.totalEnergy >
       params.batteryVoltage * ((params.batteryCapacity * 36) \div 100)

\* C3: after every completed tick the position lies within 0 .. track.length,
\* track.length excluded.
C3_PositionInRange ==
  lastOp \in TickOps => (state.position >= 0 /\ state.position < TrackLength)

\* C4: a tick that starts with batteryCharge <= 0 computes with throttle 0
\* whatever the slider set: its acceleration is the one of a motor force of 0
\* and totalEnergy is unchanged; from then on no step but reset changes
\* totalEnergy.
C4_DeadBatteryStopsMotor ==
  [][ (state.batteryCharge <= 0 /\ lastOp' \notin ResetOps) =>
        /\ state'.totalEnergy = state.totalEnergy
        /\ lastOp' \in TickOps =>
             /\ params'.throttle = 0
             /\ calculateMotorForce(params') = 0
             /\ state'.acceleration =
                  calculateAcceleration(state, [params EXCEPT !.throttle = 0]) ]_vars

\* a tick has run on a dead battery while the slider asked for throttle
C4_Witness ==
  /\ lastOp = "tick, throttle overridden"
  /\ state.batteryCharge = 0
  /\ params.throttle = 0

\* C5: between two resets totalEnergy never decreases and batteryCharge never
\* increases, whatever ticks and slider inputs occur.
C5_Monotonic ==
  [][ lastOp' \notin ResetOps =>
        /\ state'.totalEnergy >= state.totalEnergy
        /\ state'.batteryCharge <= state.batteryCharge ]_vars

\* ticks have drawn energy and lowered the charge, without emptying the battery
C5_Witness ==
  /\ lastOp \in TickOps
  /\ state.totalEnergy > 0
  /\ state.batteryCharge > 0
  /\ state.batteryCharge < FullCharge

\* C6: a tick whose integrated position p reaches track.length ends with
\* position p - track.length, one more lap and lapTime = dt; any other tick
\* leaves lapCount alone and adds dt to lapTime.
C6_LapWrap ==
  [][ lastOp' \in TickOps =>
        LET p == state.position + ((state'.velocity * tickDt') \div 10)
        IN  IF p >= TrackLength
              THEN /\ state'.position = p - TrackLength
                   /\ state'.lapCount = state.lapCount + 1
                   /\ state'.lapTime  = tickDt'
              ELSE /\ state'.position = p
                   /\ state'.lapCount = state.lapCount
                   /\ state'.lapTime  = state.lapTime + tickDt' ]_vars

\* the last tick completed a lap and carried an overshoot into the new lap
C6_Witness ==
  /\ lastOp \in TickOps
  /\ Len(lapTimes) = state.lapCount
  /\ state.lapCount >= 1
  /\ state.lapTime = tickDt
  /\ tickDt > 0
  /\ state.position > 0

\* the lap times recorded at the lap completions since the last reset
RecordedLapTimes == { lapTimes[i] : i \in 1..Len(lapTimes) }

Minimum(S) == CHOOSE x \in S : \A y \in S : x <= y

\* C7 as stated: bestLapTime is infinite exactly while lapCount = 0, and is
\* the minimum of the recorded lap times once a lap is completed.
C7_Original ==
  /\ (state.bestLapTime = Infinity) <=> (state.lapCount = 0)
  /\ state.lapCount >= 1 => state.bestLapTime = Minimum(RecordedLapTimes)

\* C7 amended: bestLapTime is infinite while no lap with a lap time > 0 has
\* been completed since the last reset (so while lapCount = 0); after that it
\* equals the minimum of the recorded lap times that are > 0; it never
\* increases between resets.
C7_BestLapTime ==
  /\ [](LET positive == { t \in RecordedLapTimes : t > 0 }
        IN  /\ Len(lapTimes) = state.lapCount
            /\ state.bestLapTime =
                 IF positive = {} THEN Infinity ELSE Minimum(positive))
  /\ [][ lastOp' \notin ResetOps => state'.bestLapTime <= state.bestLapTime ]_vars

\* two laps completed, one of lap time 0 and one that set the best lap time
C7_Witness ==
  /\ state.lapCount >= 2
  /\ 0 \in RecordedLapTimes
  /\ state.bestLapTime < Infinity
  /\ state.bestLapTime \in RecordedLapTimes

\* C8: reset() leaves every field of the state at its startup default, sets
\* the throttle to 0 and changes no other parameter.
C8_ResetRestoresDefaults ==
  [][ lastOp' \in ResetOps =>
        /\ state' = DefaultState
        /\ state'.position = 0 /\ state'.velocity = 0 /\ state'.acceleration = 0
        /\ state'.batteryCharge = FullCharge /\ state'.lapCount = 0
        /\ state'.lapTime = 0 /\ state'.bestLapTime = Infinity
        /\ state'.totalEnergy = 0 /\ state'.isRunning = FALSE
        /\ params'.throttle = 0
        /\ \A f \in (DOMAIN params) \ {"throttle"} : params'[f] = params[f] ]_vars

\* reset() has just run, after ticks and a change of the mass
C8_Witness ==
  /\ lastOp = "reset"
  /\ tickDt > 0
  /\ params.mass # DefaultParams.mass
  /\ state = DefaultState

\* C9: a reset() that directly follows a reset() changes neither the state
\* nor the parameters.
C9_ResetIdempotent ==
  [][ (lastOp \in ResetOps /\ lastOp' \in ResetOps) =>
        (state' = state /\ params' = params) ]_vars

\* reset() has run twice in a row
C9_Witness ==
  /\ lastOp = "reset again"
  /\ tickDt > 0

\* C10: a frame that finds isRunning false changes no field of the state, and
\* the dt of every tick lies within 0 .. 0.1 s, also after a pause.
C10_PausedFrame ==
  /\ [](tickDt >= 0 /\ tickDt <= MaxDt)
  /\ [][ (lastOp' \in FrameOps /\ ~state.isRunning) =>
           (state' = state /\ params' = params) ]_vars

\* a frame has passed while the car was paused in motion
C10_Witness ==
  /\ lastOp = "frame"
  /\ ~state.isRunning
  /\ state.velocity > 0
  /\ state.lapTime > 0

\* C11: a dead battery leads to rest.  Every tick with dt > 0 that starts
\* with batteryCharge at 0 and frictionCoeff > 0, whatever throttle the
\* slider has set, strictly lowers a positive velocity and keeps a car at
\* rest at rest with its position unchanged; isRunning stays true.  The
\* velocity is bounded below by 0 and drops by at least mu * g * dt per tick,
\* so a run of such ticks ends at rest and stays there.
C11_DeadBatteryLeadsToRest ==
  [][ (/\ lastOp' \in TickOps
       /\ tickDt' > 0
       /\ state.batteryCharge <= 0
       /\ params.frictionCoeff > 0) =>
        /\ state'.isRunning
        /\ state'.batteryCharge = 0
        /\ state.velocity > 0 => state'.velocity < state.velocity
        /\ state.velocity = 0 =>
              (state'.velocity = 0 /\ state'.position = state.position) ]_vars

\* the car has come to rest in a tick that found the battery dead and the
\* throttle slider above 0
C11_Witness ==
  /\ lastOp = "tick, throttle overridden"
  /\ tickDt > 0
  /\ params.frictionCoeff > 0
  /\ state.batteryCharge = 0
  /\ state.velocity = 0
  /\ state.acceleration < 0
  /\ state.position > 0
  /\ state.isRunning

\* C13 as stated: an input on the throttle, mass or friction slider changes
\* only its own field of the parameters and no field of the state,
\* isRunning included.
C13_Original ==
  [][ /\ lastOp' \in ThrottleOps =>
           (state' = state /\ params' = [params EXCEPT !.throttle = params'.throttle])
      /\ lastOp' = "mass" =>
           (state' = state /\ params' = [params EXCEPT !.mass = params'.mass])
      /\ lastOp' = "friction" =>
           (state' = state /\ params' = [params EXCEPT !.frictionCoeff = params'.frictionCoeff])
    ]_vars

\* C13: an input on the throttle, mass or friction slider changes only its
\* own field of the parameters; the mass and friction inputs change no field
\* of the state, and the throttle input changes none but isRunning, which it
\* sets to true when the new throttle is above 0.
C13_SettersFrame ==
  [][ /\ lastOp' \in ThrottleOps =>
           /\ params' = [params EXCEPT !.throttle = params'.throttle]
           /\ state' = [state EXCEPT
                          !.isRunning = state.isRunning \/ params'.throttle > 0]
      /\ lastOp' = "mass" =>
           (state' = state /\ params' = [params EXCEPT !.mass = params'.mass])
      /\ lastOp' = "friction" =>
           (state' = state /\ params' = [params EXCEPT !.frictionCoeff = params'.frictionCoeff])
    ]_vars

\* a throttle input has started a car that was paused in motion
C13_Witness ==
  /\ lastOp = "throttle, started"
  /\ state.isRunning
  /\ params.throttle > 0
  /\ state.velocity > 0
  /\ state.lapTime > 0

\* C12: after any sequence of throttle and mass inputs, values of 0, below 0
\* and non-numeric ones included, params.throttle lies within 0 .. 1 and
\* params.mass is above 0.
C12_SettersValidate ==
  /\ params.throttle # NaN /\ params.throttle >= 0 /\ params.throttle <= 100
  /\ params.mass # NaN /\ params.mass > 0

\* C14: calculateFromMass reports Zn as the limiting reagent exactly when
\* moles(Zn) <= moles(MnO2) / 2 and MnO2 otherwise, the other reagent being
\* the excess one; on an exact 1 : 2 tie Zn is limiting and MnO2 in excess.
C14_LimitingReagent ==
  calc.fn = "calculateFromMass" =>
    /\ (calc.out.limitingReagent = "Zn") <=>
          (2 * calc.out.molesZn <= calc.out.molesMnO2)
    /\ (calc.out.limitingReagent = "MnO2") <=>
          (2 * calc.out.molesZn > calc.out.molesMnO2)
    /\ calc.out.excessReagent =
          (IF calc.out.limitingReagent = "Zn" THEN "MnO2" ELSE "Zn")
    /\ calc.out.molesReaction =
          (IF calc.out.limitingReagent = "Zn" THEN calc.out.molesZn
                                              ELSE calc.out.molesMnO2 \div 2)

\* the call with 0.25 mol of Zn and 0.5 mol of MnO2: an exact tie
C14_Witness ==
  /\ calc.fn = "calculateFromMass"
  /\ calc.args[1] = 16345000 /\ calc.args[2] = 43468000
  /\ 2 * calc.out.molesZn = calc.out.molesMnO2
  /\ calc.out.limitingReagent = "Zn"
  /\ calc.out.excessReagent = "MnO2"
  /\ calc.out.excessMoles = 0

\* C15: in the result of calculateFromMass molesReaction is the moles of the
\* limiting reagent divided by its coefficient (1 for Zn, 2 for MnO2),
\* molesElectrons = molesReaction * electronsPerRxn, chargeC =
\* molesElectrons * 96485, energyJ = voltage * chargeC, energyWh =
\* energyJ / 3600 and capacityMah = chargeC / 3.6; 1 g of Zn with 2 g of MnO2
\* gives MnO2 as limiting, 0.02301 mol of electrons and about 2220 C.
C15_ChargeAndEnergy ==
  calc.fn = "calculateFromMass" =>
    LET o == calc.out
    IN  /\ o.molesReaction =
             (IF o.limitingReagent = "Zn" THEN o.molesZn \div 1
                                          ELSE o.molesMnO2 \div 2)
        /\ o.molesElectrons = o.molesReaction * o.electronsPerRxn
        /\ o.chargeC = MulDiv(o.molesElectrons, 96485, 10000)
        /\ o.energyJ = (o.voltage * o.chargeC) \div 10
        /\ o.energyWh = (o.energyJ * 10) \div 36
        /\ o.capacityMah = (o.chargeC * 10) \div 36
        /\ (calc.args = <<1000000, 2000000>>) =>
             /\ o.limitingReagent = "MnO2"
             /\ o.molesElectrons >= 230050 /\ o.molesElectrons < 230150
             /\ o.chargeC >= 2219500 /\ o.chargeC < 2220500

\* the call with 1 g of Zn and 2 g of MnO2 and the default voltage and
\* electrons per reaction
C15_Witness ==
  /\ calc.fn = "calculateFromMass"
  /\ calc.args = <<1000000, 2000000>>
  /\ calc.out.limitingReagent = "MnO2"
  /\ calc.out.electronsPerRxn = 2
  /\ calc.out.chargeC > 0

\* C16 as stated: calculateFromCapacity(capacityMah, cellVoltage,
\* seriesCount, parallelCount) returns packVoltage = cellVoltage *
\* seriesCount, packCapacityMah = capacityMah * parallelCount, pack charge =
\* capacityMah * 3.6 * parallelCount, energyJ = packVoltage * pack charge and
\* energyWh = energyJ / 3600; (2000, 1.5, 4, 1) gives 6.0 V, 2000 mAh,
\* 43200 J and 12.0 Wh.
C16_Original ==
  (calc.fn = "calculateFromCapacity" /\ Len(calc.args) = 4) =>
    LET o             == calc.out
        capacityMah   == calc.args[1]
        cellVoltage   == calc.args[2]
        seriesCount   == calc.args[3]
        parallelCount == calc.args[4]
    IN  /\ o.packVoltage = cellVoltage * seriesCount
        /\ o.packCapacityMah = capacityMah * parallelCount
        /\ o.chargeC = ((capacityMah * 36) \div 10) * parallelCount
        /\ o.energyJ = (o.packVoltage * o.chargeC) \div 10
        /\ o.energyWh = (o.energyJ * 10) \div 36
        /\ (calc.args = <<2000000, 15, 4, 1>>) =>
             /\ o.packVoltage = 60
             /\ o.packCapacityMah = 2000000
             /\ o.energyJ = 43200000
             /\ o.energyWh = 12000000

\* C16: calculateFromCapacity(capacityMah, cellVoltage, cellCount,
\* seriesCount, parallelCount), the last three 1 when not passed, returns
\* packVoltage = cellVoltage * seriesCount, packCapacityMah = capacityMah *
\* parallelCount, pack charge = capacityMah * 3.6 * parallelCount, energyJ =
\* packVoltage * pack charge and energyWh = energyJ / 3600, whatever
\* cellCount is; (2000, 1.5, 4, 4, 1) gives 6.0 V, 2000 mAh, 43200 J and
\* 12.0 Wh.
C16_PackFromCapacity ==
  calc.fn = "calculateFromCapacity" =>
    LET o             == calc.out
        capacityMah   == calc.args[1]
        cellVoltage   == calc.args[2]
        seriesCount   == IF Len(calc.args) >= 4 THEN calc.args[4] ELSE 1
        parallelCount == IF Len(calc.args) >= 5 THEN calc.args[5] ELSE 1
    IN  /\ o.packVoltage = cellVoltage * seriesCount
        /\ o.packCapacityMah = capacityMah * parallelCount
        /\ o.chargeC = ((capacityMah * 36) \div 10) * parallelCount
        /\ o.energyJ = (o.packVoltage * o.chargeC) \div 10
        /\ o.energyWh = (o.energyJ * 10) \div 36
        /\ (calc.args = <<2000000, 15, 4, 4, 1>>) =>
             /\ o.packVoltage = 60
             /\ o.packCapacityMah = 2000000
             /\ o.energyJ = 43200000
             /\ o.energyWh = 12000000

\* the call for four 2000 mAh cells of 1.5 V in series
C16_Witness ==
  /\ calc.fn = "calculateFromCapacity"
  /\ calc.args = <<2000000, 15, 4, 4, 1>>
  /\ calc.out.packVoltage = 60
  /\ calc.out.energyJ = 43200000

C18_Runtime ==
  calc.fn = "estimateRuntime" =>
    LET o           == calc.out
        capacityMah == calc.args[1]
        currentA    == calc.args[2]
    IN  /\ currentA <= 0 => (o.hours = Infinity /\ o.minutes = Infinity)
        /\ currentA > 0 =>
             /\ o.hours = capacityMah \div (100 * currentA)
             /\ o.minutes = 60 * o.hours
             /\ o.hours < Infinity

\* the runtime of a pack that feeds no load
C18_Witness ==
  /\ calc.fn = "estimateRuntime"
  /\ calc.args[1] > 0
  /\ calc.args[2] = 0
  /\ calc.out.hours = Infinity
  /\ calc.out.minutes = Infinity

\* C19: computeBFieldSolenoid returns B = mu0 * muR * N * I / L, where muR is
\* the value of the table for air, ferrite, iron and steel and 1 for every
\* other material name, with B_mT = 1000 * B and B_uT = 10^6 * B; 50 turns,
\* 1 A and 0.02 m give about 3.14 mT in air and about 12.57 T with iron.
C19_Solenoid ==
  (/\ calc.fn = "computeBFieldSolenoid"
   /\ Len(calc.args) = 4
   /\ calc.args[4].type = "string") =>
    LET o    == calc.out
        name == calc.args[4].name
        muR  == CASE name = "air"     -> 1
                  [] name = "ferrite" -> 2000
                  [] name = "iron"    -> 4000
                  [] name = "steel"   -> 4500
                  [] OTHER            -> 1
    IN  /\ o.inputs.muR = muR
        /\ o.B # NaN
        /\ o.B = (MU_0 * muR * calc.args[1] * calc.args[2]) \div calc.args[3]
        /\ o.B_mT = o.B /\ o.B_uT = o.B
        /\ (calc.args[1] = 50 /\ calc.args[2] = 1 /\ calc.args[3] = 20) =>
             /\ name = "air" => (o.B_mT >= 3135 /\ o.B_mT < 3145)
             /\ name = "iron" => (o.B >= 12565000 /\ o.B < 12575000)

\* C20: computeLoadedCurrent returns current = 0 together with a note
\* whenever motorR + internalR <= 0, and current = supplyVoltage /
\* (motorR + internalR) whenever motorR + internalR > 0.
C20_LoadedCurrent ==
  calc.fn = "computeLoadedCurrent" =>
    LET o             == calc.out
        supplyVoltage == calc.args[1]
        motorR        == calc.args[2]
        internalR     == IF Len(calc.args) >= 3 THEN calc.args[3] ELSE 0
    IN  /\ motorR + internalR <= 0 =>
             (o.current = 0 /\ "note" \in DOMAIN o /\ o.note = "Invalid resistance")
        /\ motorR + internalR > 0 =>
             o.current = (1000 * supplyVoltage) \div (motorR + internalR)

\* a motor whose resistance is cancelled by the internal resistance passed
C20_Witness ==
  /\ calc.fn = "computeLoadedCurrent"
  /\ Len(calc.args) = 3
  /\ calc.args[1] > 0
  /\ calc.args[2] > 0
  /\ calc.args[2] + calc.args[3] = 0
  /\ calc.out.current = 0

\* C21: estimateSpeed returns rpm = null exactly when the no-load speed of
\* the preset is null or 0, whatever the current and the supply voltage, and
\* a number when the no-load speed of the preset is above 0.
C21_NullRpm ==
  calc.fn = "estimateSpeed" =>
    /\ (calc.out.rpm = Null) <=>
         (calc.preset.noLoadRPM = Null \/ calc.preset.noLoadRPM = 0)
    /\ (calc.preset.noLoadRPM # Null /\ calc.preset.noLoadRPM > 0) =>
         (calc.out.rpm # Null /\ calc.out.rpm # NaN /\ calc.out.rpm \in Int)

\* the speed of the demonstration coil under a current
C21_Witness ==
  /\ calc.fn = "estimateSpeed"
  /\ calc.preset = MOTOR_PRESETS.demo_solenoid
  /\ calc.args[1] > 0 /\ calc.args[2] > 0
  /\ calc.out.rpm = Null

\* C22: for a preset that rotates, rpm = round(noLoadRPM * max(0,
\* (supplyVoltage - current * armatureR) / ratedVoltage) * min(supplyVoltage /
\* ratedVoltage, 1.5)); for supplyVoltage >= 0 the rpm is never below 0, it
\* is 0 whenever current * armatureR >= supplyVoltage, and the voltage ratio
\* never exceeds 1.5.
C22_RpmFormula ==
  (calc.fn = "estimateSpeed" /\ ~Falsy(calc.preset.noLoadRPM)) =>
    LET pr            == calc.preset
        current       == calc.args[1]
        supplyVoltage == calc.args[2]
        effective     == (10 * supplyVoltage) - (current * pr.armatureR)
        capped        == 2 * supplyVoltage > 3 * pr.ratedVoltage
        expected      == IF capped
                           THEN RoundDiv(pr.noLoadRPM * Max(0, effective) * 3,
                                         20 * pr.ratedVoltage)
                           ELSE RoundDiv(pr.noLoadRPM * Max(0, effective) * supplyVoltage,
                                         10 * pr.ratedVoltage * pr.ratedVoltage)
    IN  /\ calc.out.rpm = expected
        /\ supplyVoltage >= 0 => calc.out.rpm >= 0
        /\ current * pr.armatureR >= 10 * supplyVoltage => calc.out.rpm = 0
        \* rpm <= 1.5 * noLoadRPM * speedRatio + 1/2
        /\ calc.out.rpm * 2 * pr.ratedVoltage * 10 <=
             (3 * pr.noLoadRPM * Max(0, effective)) + (pr.ratedVoltage * 10)

\* the hobby motor, rated 7.2 V, on 12 V with 1 A: the voltage ratio is held
\* at 1.5 and the speed is 15000 * (11.5 / 7.2) * 1.5
C22_Witness ==
  /\ calc.fn = "estimateSpeed"
  /\ calc.preset = MOTOR_PRESETS.hobby_motor
  /\ calc.args = <<10, 120>>
  /\ calc.out.rpm = 35938

\* C23: when the battery calculator has published a result with its pack
\* voltage and motor current before the simulator initialises, batteryVoltage
\* and batteryCurrent after init() are the published values; when nothing or
\* malformed data is stored, init() leaves the parameters at their defaults.
C23_Transfer ==
  lastOp = "init" =>
    /\ (storage[PhysicsKey].kind = "json" /\ storage[PhysicsKey].data.motorCurrent > 0) =>
         /\ params.batteryVoltage = storage[PhysicsKey].data.packVoltage
         /\ params.batteryCurrent = storage[PhysicsKey].data.motorCurrent
    /\ (storage[PhysicsKey].kind = "none" /\ storage[SimulatorKey].kind # "json") =>
         params = DefaultParams

C25_TickOrder ==
  [][ lastOp' \in TickOps =>
        LET dt         == tickDt'
            a          == calculateAcceleration(state, params')
            v          == Max(0, state.velocity + ((a * dt) \div 100))
            x          == state.position + ((v * dt) \div 10)
            crossed    == x >= TrackLength
            energyUsed == (params'.batteryVoltage * params'.batteryCurrent
                             * params'.throttle * dt) \div 1000
        IN  /\ a = calculateAcceleration(
                     [state EXCEPT !.acceleration = 0], params')
            /\ state'.acceleration = a
            /\ state'.velocity = v
            /\ state'.position = IF crossed THEN x - TrackLength ELSE x
            /\ state'.lapCount = state.lapCount + (IF crossed THEN 1 ELSE 0)
            /\ state'.lapTime = (IF crossed THEN 0 ELSE state.lapTime) + dt
            /\ state'.totalEnergy = state.totalEnergy + energyUsed ]_vars

\* the first tick that moves the car: it started at rest at the line and
\* has advanced by the velocity it has just gained
C25_Witness ==
  /\ lastOp = "tick"
  /\ tickDt > 0
  /\ state.lapCount = 0
  /\ state.lapTime = tickDt
  /\ state.acceleration > 0
  /\ state.velocity = (state.acceleration * tickDt) \div 100
  /\ state.position > 0
  /\ state.position = (state.velocity * tickDt) \div 10

\* C26: the friction term of a tick is -(frictionCoeff * mass * 9.81) when
\* the velocity at the start of the tick is above 0 and 0 when it is 0; a car
\* at rest with throttle 0 stays at rest, and a car at rest with a motor
\* force above 0 gains velocity in a tick with dt > 0, also when the motor
\* force is below frictionCoeff * mass * 9.81.
C26_FrictionTerm ==
  [][ lastOp' \in TickOps =>
        LET motorForce == calculateMotorForce(params')
            drag       == calculateAirResistance(state, params')
            term       == IF state.velocity > 0
                            THEN -((params.frictionCoeff * params.mass * 981) \div 10000)
                            ELSE 0
        IN  /\ state.velocity >= 0
            /\ state'.acceleration =
                 ((motorForce + term + drag) * 10) \div params.mass
            /\ (state.velocity = 0 /\ params'.throttle = 0) =>
                 (state'.velocity = 0 /\ state'.position = state.position)
            /\ (state.velocity = 0 /\ motorForce > 0 /\ tickDt' > 0) =>
                 state'.velocity > 0 ]_vars

\* a car of 500 g on a surface of friction 0.3 has left rest under a motor
\* force of 1.4 N, below the 1.47 N of friction
C26_Witness ==
  /\ lastOp \in TickOps
  /\ tickDt > 0
  /\ state.lapTime = tickDt
  /\ calculateMotorForce(params) > 0
  /\ calculateMotorForce(params) <
       (params.frictionCoeff * params.mass * 981) \div 10000
  /\ state.acceleration > 0
  /\ state.velocity > 0

\* C27: in every reachable state batteryCharge = max(0, 100 - 100 *
\* totalEnergy / (batteryVoltage * batteryCapacity * 3.6)), and a tick whose
\* throttle is 0 changes neither batteryCharge nor totalEnergy.
C27_ChargeMatchesEnergy ==
  /\ [](state.batteryCharge =
          Max(0, FullCharge - ((state.totalEnergy * FullCharge) \div
                   (params.batteryVoltage * ((params.batteryCapacity * 36) \div 100)))))
  /\ [][ (lastOp' \in TickOps /\ params'.throttle = 0) =>
           /\ state'.batteryCharge = state.batteryCharge
           /\ state'.totalEnergy = state.totalEnergy ]_vars

\* a tick with throttle 0 on a battery that is partly used
C27_Witness ==
  /\ lastOp = "tick"
  /\ tickDt > 0
  /\ params.throttle = 0
  /\ state.totalEnergy > 0
  /\ state.batteryCharge > 0
  /\ state.batteryCharge < FullCharge

RECURSIVE SumSeq(_)
SumSeq(q) == IF q = << >> THEN 0 ELSE Head(q) + SumSeq(Tail(q))

\* the simulated time accounted for since the last reset: the lap times
\* recorded at the lap completions plus the time of the lap under way
TimeInLaps(s, recorded) == SumSeq(recorded) + s.lapTime

\* C28: lap timing conserves simulated time.  The time in laps is 0 at the
\* start and after a reset, grows by dt in every tick and changes in no
\* other step, so it equals the sum of dt over the ticks since the last
\* reset; the dt of a tick that crosses the line counts for the new lap.
C28_LapTimeConserved ==
  /\ TimeInLaps(DefaultState, << >>) = 0
  /\ [][ /\ lastOp' \in TickOps =>
              TimeInLaps(state', lapTimes') = TimeInLaps(state, lapTimes) + tickDt'
         /\ lastOp' \in ResetOps => TimeInLaps(state', lapTimes') = 0
         /\ lastOp' \notin (TickOps \cup ResetOps) =>
              TimeInLaps(state', lapTimes') = TimeInLaps(state, lapTimes)
         /\ (lastOp' \in TickOps /\ state'.lapCount # state.lapCount) =>
              /\ state'.lapTime = tickDt'
              /\ lapTimes'[Len(lapTimes')] = state.lapTime ]_vars

\* a tick with dt > 0 has just carried the car over the line, ending a lap
\* that took time
C28_Witness ==
  /\ lastOp \in TickOps
  /\ tickDt > 0
  /\ Len(lapTimes) >= 1
  /\ lapTimes[Len(lapTimes)] > 0
  /\ state.lapTime = tickDt
  /\ state.position < (state.velocity * tickDt) \div 10

\* C29: isRunning is false at the start and after a reset; it becomes true
\* only by the start/pause button or by a throttle input above 0 while
\* stopped, and false only by that button or by a reset.  A tick never
\* changes isRunning and changes no parameter but throttle, which it only
\* sets to 0 and only when batteryCharge <= 0.
C29_RunningStateMachine ==
  /\ [](lastOp = "init" => ~state.isRunning)
  /\ [][ /\ lastOp' \in ResetOps => ~state'.isRunning
         /\ (~state.isRunning /\ state'.isRunning) =>
              \/ lastOp' = "start"
              \/ (lastOp' = "throttle, started" /\ params'.throttle > 0)
         /\ (state.isRunning /\ ~state'.isRunning) =>
              (lastOp' = "start" \/ lastOp' \in ResetOps)
         /\ lastOp' \in TickOps =>
              /\ state.isRunning /\ state'.isRunning
              /\ params' = [params EXCEPT !.throttle = params'.throttle]
              /\ params'.throttle # params.throttle =>
                   (params'.throttle = 0 /\ state.batteryCharge <= 0) ]_vars

\* the simulation still runs after a tick has found the battery dead and
\* has taken the throttle back to 0, a lap after the start
C29_Witness ==
  /\ lastOp = "tick, throttle overridden"
  /\ state.isRunning
  /\ state.batteryCharge = 0
  /\ params.throttle = 0
  /\ state.lapCount >= 1

\* C30: for all masses >= 0 calculateFromMass reports molesReaction =
\* min(moles(Zn), moles(MnO2) / 2) and a leftover excessMoles >= 0 of the
\* other reagent, moles(MnO2) - 2 * moles(Zn) when Zn is limiting and
\* moles(Zn) - moles(MnO2) / 2 when MnO2 is, which is 0 on an exact match;
\* the limiting and the excess reagent are always different.
C30_ExcessMoles ==
  calc.fn = "calculateFromMass" =>
    LET o == calc.out
    IN  /\ o.molesReaction = Min(o.molesZn, o.molesMnO2 \div 2)
        /\ o.excessMoles >= 0
        /\ o.limitingReagent = "Zn" =>
             o.excessMoles = o.molesMnO2 - (2 * o.molesZn)
        /\ o.limitingReagent = "MnO2" =>
             o.excessMoles = o.molesZn - (o.molesMnO2 \div 2)
        /\ 2 * o.molesZn = o.molesMnO2 => o.excessMoles = 0
        /\ o.limitingReagent # o.excessReagent
        /\ {o.limitingReagent, o.excessReagent} = {"Zn", "MnO2"}

\* 2 g of Zn with 1 g of MnO2: MnO2 runs out and Zn is left over
C30_Witness ==
  /\ calc.fn = "calculateFromMass"
  /\ calc.args[1] = 2000000 /\ calc.args[2] = 1000000
  /\ calc.out.limitingReagent = "MnO2"
  /\ calc.out.excessReagent = "Zn"
  /\ calc.out.excessMoles > 0

====
